---- MODULE Spec2Model ----
(***************************************************************************)
(* Model of src/aio/poller.c: the nn_poller readiness multiplexer with its *)
(* three mutually exclusive backends (NN_USE_EPOLL, NN_USE_KQUEUE,         *)
(* NN_USE_POLL).  The backend is a build option, fixed in Init.  The two   *)
(* other build switches select code inside one function each and are       *)
(* inputs of that function's action: EPOLL_CLOEXEC in nn_poller_init and   *)
(* NN_IGNORE_EINTR in nn_poller_wait (the "EINTR" outcome of wait exists   *)
(* only in builds without it).  The kernel side of each backend (the epoll *)
(* interest list, the kqueue filter table, the answer of poll()) is part   *)
(* of the state or an input of the call that consults it.                  *)
(***************************************************************************)
EXTENDS Integers, Sequences, FiniteSets, TLC

\* ------------------------------------------------------------------ bounds
NumHandles == 2
NumFds == 2
NN_POLLER_MAX_EVENTS == 2
MaxFail == 1
MaxTerm == 2
MaxSlots == 3
MaxCalls == 8
MisuseCalls == 7
GrowHandles == 20
GrowLead == 1
GrowCalls == 4
LiveCalls == 2

\* -------------------------------------------------------- program constants
NN_POLLER_GRANULARITY == 16

Handles == 1 .. NumHandles
Fds == 1 .. NumFds
NoHndl == 0
NoFd == 0

Backends == {"epoll", "kqueue", "poll"}
Kinds == {"IN", "OUT", "ERR"}
Interest == {"IN", "OUT"}
UBOutcomes == {"crashed", "hung"}

VARIABLES
    backend,      \* which #if branch of poller.c is compiled
    st,           \* "uninit", "running", "emfile", "termed", "aborted", or a UB outcome
    closes,       \* how many times the poller's own resource was released
    hndl,         \* struct nn_poller_hndl of every handle: fd, events, index
    regfd,        \* caller's view: descriptor a handle is registered for, NoFd if none
    epset,        \* epoll interest list: fd -> [on, ptr, mask]
    kqset,        \* kqueue filters: fd -> [READ |-> udata, WRITE |-> udata]
    events,       \* self->events [0 .. nevents-1] (epoll, kqueue)
    nevents,      \* self->nevents
    index,        \* self->index (the drain cursor, all backends)
    pollset,      \* self->pollset: slot -> [fd, events, revents], the slots written so far
    hndls,        \* self->hndls: slot -> [hndl, prev, next], the slots written so far
    size,         \* self->size
    capacity,     \* self->capacity
    removed,      \* self->removed
    fresh,        \* handles added and not armed (no set_in/set_out) since
    cyc,          \* since the last wait(): handles removed, <<handle, kind>> reset,
                  \* while the buffer held an undelivered event for them; and
                  \* whether drain() has returned the sentinel
    misused,      \* the caller has broken the calling contract
    nfail,        \* spurious kernel failures injected so far
    calls,        \* API calls made so far
    last          \* the last API call: op, argument, result, kernel calls issued

vars == <<backend, st, closes, hndl, regfd, epset, kqset,
          events, nevents, index, pollset, hndls, size, capacity, removed,
          fresh, cyc, misused, nfail, calls, last>>

epvars == <<epset, events, nevents>>
kqvars == <<kqset, events, nevents>>
povars == <<pollset, hndls, size, capacity, removed>>

\* ----------------------------------------------------------------- helpers
Reg == {h \in DOMAIN regfd : regfd[h] # NoFd}
FreeFds == {f \in Fds : \A h \in Handles : regfd[h] # f}

Call(op, h, rc, ev, kcalls, kfail) ==
    [op |-> op, h |-> h, rc |-> rc, event |-> ev, kcalls |-> kcalls, kfail |-> kfail]

\* A kernel call on a valid argument may still fail (ENOMEM and the like).
MayFail == IF nfail < MaxFail THEN {FALSE, TRUE} ELSE {FALSE}

\* All sequences of distinct elements of S of length at most n.
RECURSIVE Arrangements(_, _)
Arrangements(S, n) ==
    IF n = 0 \/ S = {} THEN {<<>>}
    ELSE {<<>>} \cup UNION {{<<x>> \o t : t \in Arrangements(S \ {x}, n - 1)} : x \in S}

\* The live suffix of the buffer: the records at C index >= self->index, which
\* are the positions > index of the sequence.
Live(i) == i > index

\* --------------------------------------------------------------- the caller
\* What the owner of the poller knows: regfd, the descriptor each handle is
\* registered for, and fresh, the handles that were added and have had neither
\* set_in nor set_out called since.
Running == st = "running"

\* had: the buffer held an undelivered event for the handle (of the kind that
\* is reset) when the call was made; only such calls are recorded in cyc.
\* dry: "yes" once nn_poller_event has returned -EAGAIN since the last wait,
\* "touched" once add, rm, set or reset has been called after that.
NoCyc == [rm |-> {}, reset |-> {}, dry |-> "no"]

Touch(c) == IF c.dry = "no" THEN c ELSE [c EXCEPT !.dry = "touched"]

CallerAdds(fd, h) ==
    /\ regfd' = [regfd EXCEPT ![h] = fd]
    /\ fresh' = fresh \cup {h}
    /\ cyc' = Touch(cyc)

CallerRemoves(h, had) ==
    /\ regfd' = [regfd EXCEPT ![h] = NoFd]
    /\ fresh' = fresh \ {h}
    /\ cyc' = Touch(IF had THEN [cyc EXCEPT !.rm = @ \cup {h}] ELSE cyc)

CallerSets(h) ==
    /\ fresh' = fresh \ {h}
    /\ cyc' = Touch(cyc)
    /\ UNCHANGED regfd

CallerResets(h, bit, had) ==
    /\ cyc' = Touch(IF had THEN [cyc EXCEPT !.reset = @ \cup {<<h, bit>>}] ELSE cyc)
    /\ UNCHANGED <<regfd, fresh>>

CallerWaits ==
    /\ cyc' = NoCyc
    /\ UNCHANGED <<regfd, fresh>>

CallerDrains ==
    /\ cyc' = IF last'.rc = "EAGAIN" /\ cyc.dry = "no" THEN [cyc EXCEPT !.dry = "yes"] ELSE cyc
    /\ UNCHANGED <<regfd, fresh>>

\* ------------------------------------------------------------ epoll backend
\* epoll_ctl: EEXIST on ADD of a registered descriptor, ENOENT on MOD/DEL of
\* an unregistered one, and any call may fail for lack of resources.
EpollCtlFails(op, fd, fail) ==
    \/ fail
    \/ op = "ADD" /\ epset[fd].on
    \/ op \in {"MOD", "DEL"} /\ ~epset[fd].on

EpollCtl(op, fd, h, mask, fail) ==
    IF EpollCtlFails(op, fd, fail) THEN epset
    ELSE IF op = "DEL" THEN [epset EXCEPT ![fd] = [on |-> FALSE, ptr |-> NoHndl, mask |-> {}]]
    ELSE [epset EXCEPT ![fd] = [on |-> TRUE, ptr |-> h, mask |-> mask]]

\* The scan loops "for (i = self->index; i != self->nevents; ++i)" run off the
\* end of self->events when the cursor is beyond the count.
ScanOverruns == index > nevents

nn_poller_add_epoll(fd, h, fail) ==
    /\ hndl' = [hndl EXCEPT ![h].fd = fd, ![h].events = {}]
    /\ epset' = EpollCtl("ADD", fd, h, {}, fail)
    /\ last' = Call("add", h, "OK", "", 1, EpollCtlFails("ADD", fd, fail))
    /\ UNCHANGED <<st, events, nevents, index>>

nn_poller_rm_epoll(h, fail) ==
    /\ epset' = EpollCtl("DEL", hndl[h].fd, h, {}, fail)
    /\ last' = Call("rm", h, "OK", "", 1, EpollCtlFails("DEL", hndl[h].fd, fail))
    /\ IF ScanOverruns
         THEN st' \in UBOutcomes /\ UNCHANGED events
         ELSE /\ st' = st
              /\ events' = [i \in 1 .. Len(events) |->
                     IF Live(i) /\ events[i].ptr = h
                     THEN [events[i] EXCEPT !.events = {}] ELSE events[i]]
    /\ UNCHANGED <<hndl, nevents, index>>

nn_poller_set_epoll(h, bit, fail) ==
    IF bit \in hndl[h].events
    THEN /\ last' = Call("set_" \o bit, h, "OK", "", 0, FALSE)
         /\ UNCHANGED <<hndl, epset, st, events, nevents, index>>
    ELSE /\ hndl' = [hndl EXCEPT ![h].events = @ \cup {bit}]
         /\ epset' = EpollCtl("MOD", hndl[h].fd, h, hndl[h].events \cup {bit}, fail)
         /\ last' = Call("set_" \o bit, h, "OK", "", 1, EpollCtlFails("MOD", hndl[h].fd, fail))
         /\ UNCHANGED <<st, events, nevents, index>>

nn_poller_reset_epoll(h, bit, fail) ==
    IF bit \notin hndl[h].events
    THEN /\ last' = Call("reset_" \o bit, h, "OK", "", 0, FALSE)
         /\ UNCHANGED <<hndl, epset, st, events, nevents, index>>
    ELSE /\ hndl' = [hndl EXCEPT ![h].events = @ \ {bit}]
         /\ epset' = EpollCtl("MOD", hndl[h].fd, h, hndl[h].events \ {bit}, fail)
         /\ last' = Call("reset_" \o bit, h, "OK", "", 1, EpollCtlFails("MOD", hndl[h].fd, fail))
         /\ IF ScanOverruns
              THEN st' \in UBOutcomes /\ UNCHANGED events
              ELSE /\ st' = st
                   /\ events' = [i \in 1 .. Len(events) |->
                          IF Live(i) /\ events[i].ptr = h
                          THEN [events[i] EXCEPT !.events = @ \ {bit}] ELSE events[i]]
         /\ UNCHANGED <<nevents, index>>

\* What epoll_wait can put into the buffer: one record per ready registered
\* descriptor, in the kernel's order, carrying the ready conditions among the
\* registered mask plus the error/hangup conditions, which are always reported.
EpollBatches ==
    LET on == {f \in Fds : epset[f].on}
    IN  UNION {
          {[i \in 1 .. Len(b) |-> [ptr |-> epset[b[i]].ptr, events |-> rs[i], fd |-> b[i]]] :
             rs \in {r \in [1 .. Len(b) -> SUBSET Kinds] :
                       \A i \in 1 .. Len(b) :
                          r[i] # {} /\ r[i] \subseteq epset[b[i]].mask \cup {"ERR"}}}
          : b \in Arrangements(on, NN_POLLER_MAX_EVENTS)}

\* EINTR is retried inside the call; "fail" is any other error of epoll_wait.
\* The assertion tests self->nevents, which is 0 at that point, so it passes.
nn_poller_wait_epoll(batch, fail) ==
    /\ index' = 0
    /\ IF fail
         THEN events' = <<>> /\ nevents' = -1
         ELSE events' = batch /\ nevents' = Len(batch)
    /\ last' = Call("wait", NoHndl, "OK", "", 1, fail)
    /\ UNCHANGED <<hndl, epset, st>>

\* The skip loop of nn_poller_event: the first position at or after the cursor
\* that holds a non-empty record, or the count.
\* empty[i] tells whether the record at C index i is empty.
RECURSIVE SkipEmpty(_, _, _)
SkipEmpty(empty, i, n) ==
    IF i < n /\ empty[i] THEN SkipEmpty(empty, i + 1, n) ELSE i

EpollEmpty == [i \in 0 .. Len(events) - 1 |-> events[i + 1].events = {}]

\* nn_poller_event that tests EPOLLOUT before EPOLLIN.
nn_poller_event_epoll_outfirst ==
    LET i == SkipEmpty(EpollEmpty, index, nevents)
    IN  IF i >= nevents
        THEN /\ index' = i
             /\ last' = Call("event", NoHndl, "EAGAIN", "", 0, FALSE)
             /\ UNCHANGED <<hndl, epset, st, events, nevents>>
        ELSE LET e == events[i + 1]
                 kind == IF "OUT" \in e.events THEN "OUT"
                         ELSE IF "IN" \in e.events THEN "IN" ELSE "ERR"
             IN  /\ index' = IF kind = "ERR" THEN i + 1 ELSE i
                 /\ events' = IF kind = "ERR" THEN events
                               ELSE [events EXCEPT ![i + 1].events = @ \ {kind}]
                 /\ last' = Call("event", e.ptr, "OK", kind, 0, FALSE)
                 /\ UNCHANGED <<hndl, epset, st, nevents>>

nn_poller_event_epoll ==
    LET i == SkipEmpty(EpollEmpty, index, nevents)
    IN  IF i >= nevents
        THEN /\ index' = i
             /\ last' = Call("event", NoHndl, "EAGAIN", "", 0, FALSE)
             /\ UNCHANGED <<hndl, epset, st, events, nevents>>
        ELSE LET e == events[i + 1]
                 kind == IF "IN" \in e.events THEN "IN"
                         ELSE IF "OUT" \in e.events THEN "OUT" ELSE "ERR"
             IN  /\ index' = IF kind = "ERR" THEN i + 1 ELSE i
                 /\ events' = IF kind = "ERR" THEN events
                               ELSE [events EXCEPT ![i + 1].events = @ \ {kind}]
                 /\ last' = Call("event", e.ptr, "OK", kind, 0, FALSE)
                 /\ UNCHANGED <<hndl, epset, st, nevents>>

\* ----------------------------------------------------------- kqueue backend
Filters == {"READ", "WRITE"}
FilterOf(bit) == IF bit = "IN" THEN "READ" ELSE "WRITE"

\* kevent with one change: EV_DELETE of a filter that is not there fails with
\* ENOENT, and any change may fail for lack of resources.  EV_ADD of a filter
\* that is there replaces its udata.
KeventFails(op, fd, filter, fail) ==
    \/ fail
    \/ op = "DELETE" /\ kqset[fd][filter] = NoHndl

Kevent(kq, op, fd, filter, h, failed) ==
    IF failed THEN kq
    ELSE [kq EXCEPT ![fd][filter] = IF op = "DELETE" THEN NoHndl ELSE h]

nn_poller_add_kqueue(fd, h) ==
    /\ hndl' = [hndl EXCEPT ![h].fd = fd, ![h].events = {}]
    /\ last' = Call("add", h, "OK", "", 0, FALSE)
    /\ UNCHANGED <<kqset, st, events, nevents, index>>

\* failing: the filters whose EV_DELETE meets a resource failure.
nn_poller_rm_kqueue(h, failing) ==
    LET fd == hndl[h].fd
        delIn == "IN" \in hndl[h].events
        delOut == "OUT" \in hndl[h].events
        failIn == delIn /\ KeventFails("DELETE", fd, "READ", "READ" \in failing)
        failOut == delOut /\ KeventFails("DELETE", fd, "WRITE", "WRITE" \in failing)
        kq1 == IF delIn THEN Kevent(kqset, "DELETE", fd, "READ", h, failIn) ELSE kqset
        kq2 == IF delOut THEN Kevent(kq1, "DELETE", fd, "WRITE", h, failOut) ELSE kq1
    IN  /\ kqset' = kq2
        /\ last' = Call("rm", h, "OK", "",
                        (IF delIn THEN 1 ELSE 0) + (IF delOut THEN 1 ELSE 0),
                        failIn \/ failOut)
        /\ IF ScanOverruns
             THEN st' \in UBOutcomes /\ UNCHANGED events
             ELSE /\ st' = st
                  /\ events' = [i \in 1 .. Len(events) |->
                         IF Live(i) /\ events[i].ident = fd
                         THEN [events[i] EXCEPT !.udata = NoHndl] ELSE events[i]]
        /\ UNCHANGED <<hndl, nevents, index>>

nn_poller_set_kqueue(h, bit, fail) ==
    IF bit \in hndl[h].events
    THEN /\ last' = Call("set_" \o bit, h, "OK", "", 0, FALSE)
         /\ UNCHANGED <<hndl, kqset, st, events, nevents, index>>
    ELSE LET failed == KeventFails("ADD", hndl[h].fd, FilterOf(bit), fail)
         IN  /\ kqset' = Kevent(kqset, "ADD", hndl[h].fd, FilterOf(bit), h, failed)
             /\ hndl' = IF failed THEN hndl ELSE [hndl EXCEPT ![h].events = @ \cup {bit}]
             /\ last' = Call("set_" \o bit, h, "OK", "", 1, failed)
             /\ UNCHANGED <<st, events, nevents, index>>

\* reset_in clears the bit whatever kevent returned; reset_out only on success.
KqueueClearsBit(bit, failed) == bit = "IN" \/ ~failed

nn_poller_reset_kqueue(h, bit, fail) ==
    LET fd == hndl[h].fd
        isSet == bit \in hndl[h].events
        failed == isSet /\ KeventFails("DELETE", fd, FilterOf(bit), fail)
    IN  /\ kqset' = IF isSet THEN Kevent(kqset, "DELETE", fd, FilterOf(bit), h, failed)
                     ELSE kqset
        /\ hndl' = IF isSet /\ KqueueClearsBit(bit, failed)
                    THEN [hndl EXCEPT ![h].events = @ \ {bit}] ELSE hndl
        /\ last' = Call("reset_" \o bit, h, "OK", "", IF isSet THEN 1 ELSE 0, failed)
        /\ IF ScanOverruns
             THEN st' \in UBOutcomes /\ UNCHANGED events
             ELSE /\ st' = st
                  /\ events' = [i \in 1 .. Len(events) |->
                         IF Live(i) /\ events[i].ident = fd /\ events[i].filter = FilterOf(bit)
                         THEN [events[i] EXCEPT !.udata = NoHndl] ELSE events[i]]
        /\ UNCHANGED <<nevents, index>>

\* What kevent can return: one record per triggered filter, in the kernel's
\* order, with the filter's udata and possibly the EV_EOF flag.
KqueueBatches ==
    LET active == {p \in Fds \X Filters : kqset[p[1]][p[2]] # NoHndl}
    IN  UNION {
          {[i \in 1 .. Len(b) |-> [ident |-> b[i][1], filter |-> b[i][2],
                                     eof |-> eofs[i], udata |-> kqset[b[i][1]][b[i][2]]]] :
             eofs \in [1 .. Len(b) -> BOOLEAN]}
          : b \in Arrangements(active, NN_POLLER_MAX_EVENTS)}

\* outcome: "OK" with the batch, "EINTR", or "FAIL" (any other errno).  With
\* NN_IGNORE_EINTR an interrupted call is repeated, so the call ends in one of
\* the other two outcomes.
nn_poller_wait_kqueue(batch, outcome) ==
    /\ index' = 0
    /\ events' = IF outcome = "OK" THEN batch ELSE <<>>
    /\ nevents' = IF outcome = "OK" THEN Len(batch) ELSE 0
    /\ st' = IF outcome = "FAIL" THEN "aborted" ELSE st
    /\ last' = Call("wait", NoHndl, IF outcome = "FAIL" THEN "ABORT" ELSE outcome, "",
                    1, outcome = "FAIL")
    /\ UNCHANGED <<hndl, kqset>>

KqueueEmpty == [i \in 0 .. Len(events) - 1 |-> events[i + 1].udata = NoHndl]

nn_poller_event_kqueue ==
    LET i == SkipEmpty(KqueueEmpty, index, nevents)
    IN  IF i >= nevents
        THEN /\ index' = i
             /\ last' = Call("event", NoHndl, "EAGAIN", "", 0, FALSE)
             /\ UNCHANGED <<hndl, kqset, st, events, nevents>>
        ELSE LET e == events[i + 1]
                 kind == IF e.eof THEN "ERR"
                         ELSE IF e.filter = "WRITE" THEN "OUT" ELSE "IN"
             IN  /\ index' = i + 1
                 /\ last' = Call("event", e.udata, "OK", kind, 0, FALSE)
                 /\ UNCHANGED <<hndl, kqset, st, events, nevents>>

\* ------------------------------------------------------------- poll backend
\* Memory that nn_alloc/nn_realloc hand out is not initialised.  pollset and
\* hndls hold the slots written so far (0 .. Top - 1); the rest of the capacity
\* is never read.  A slot's prev and next are not written by add; the code
\* never reads them before rm writes them, so one filler value stands for them.
FreshItem == [hndl |-> NoHndl, prev |-> -1, next |-> -1]
Top == Len(pollset)

\* Arrays are indexed from 0 in the code and from 1 in a sequence.
At(arr, i) == arr[i + 1]
Put(arr, i, v) == IF i < Len(arr) THEN [arr EXCEPT ![i + 1] = v] ELSE Append(arr, v)

\* nn_poller_add without "self->pollset [self->size].revents = 0": the new
\* slot keeps what the memory held.
nn_poller_add_poll_dirty(fd, h, allocFail) ==
    LET grows == size >= capacity
        cap == IF grows THEN 2 * capacity ELSE capacity
        old == IF size < Len(hndls) THEN At(hndls, size) ELSE FreshItem
    IN  IF grows /\ allocFail
        THEN /\ st' = "aborted"
             /\ capacity' = cap
             /\ last' = Call("add", h, "ABORT", "", 0, TRUE)
             /\ UNCHANGED <<hndl, pollset, hndls, size, removed, index>>
        ELSE /\ capacity' = cap
             /\ pollset' = Put(pollset, size, [fd |-> fd, events |-> {}, revents |-> {"IN"}])
             /\ hndl' = [hndl EXCEPT ![h].index = size]
             /\ hndls' = Put(hndls, size, [old EXCEPT !.hndl = h])
             /\ size' = size + 1
             /\ last' = Call("add", h, "OK", "", 0, FALSE)
             /\ UNCHANGED <<st, removed, index>>

\* nn_poller_add that resizes hndls with nn_alloc instead of nn_realloc: the
\* items written so far are lost when the array grows.
nn_poller_add_poll_fresh(fd, h, allocFail) ==
    LET grows == size >= capacity
        cap == IF grows THEN 2 * capacity ELSE capacity
        hs == IF grows THEN [i \in 1 .. Len(hndls) |-> FreshItem] ELSE hndls
        old == IF size < Len(hs) THEN At(hs, size) ELSE FreshItem
    IN  IF grows /\ allocFail
        THEN /\ st' = "aborted"
             /\ capacity' = cap
             /\ last' = Call("add", h, "ABORT", "", 0, TRUE)
             /\ UNCHANGED <<hndl, pollset, hndls, size, removed, index>>
        ELSE /\ capacity' = cap
             /\ pollset' = Put(pollset, size, [fd |-> fd, events |-> {}, revents |-> {}])
             /\ hndl' = [hndl EXCEPT ![h].index = size]
             /\ hndls' = Put(hs, size, [old EXCEPT !.hndl = h])
             /\ size' = size + 1
             /\ last' = Call("add", h, "OK", "", 0, FALSE)
             /\ UNCHANGED <<st, removed, index>>

\* allocFail: nn_realloc returns NULL and alloc_assert aborts.
nn_poller_add_poll(fd, h, allocFail) ==
    LET grows == size >= capacity
        cap == IF grows THEN 2 * capacity ELSE capacity
        old == IF size < Len(hndls) THEN At(hndls, size) ELSE FreshItem
    IN  IF grows /\ allocFail
        THEN /\ st' = "aborted"
             /\ capacity' = cap
             /\ last' = Call("add", h, "ABORT", "", 0, TRUE)
             /\ UNCHANGED <<hndl, pollset, hndls, size, removed, index>>
        ELSE /\ capacity' = cap
             /\ pollset' = Put(pollset, size, [fd |-> fd, events |-> {}, revents |-> {}])
             /\ hndl' = [hndl EXCEPT ![h].index = size]
             /\ hndls' = Put(hndls, size, [old EXCEPT !.hndl = h])
             /\ size' = size + 1
             /\ last' = Call("add", h, "OK", "", 0, FALSE)
             /\ UNCHANGED <<st, removed, index>>

\* nn_poller_rm that compacts at once: the last slot moves into the freed one
\* and size drops, instead of the slot being linked into the removed list.
nn_poller_rm_poll_eager(h) ==
    LET i == hndl[h].index
        z == size - 1
        g == At(hndls, z).hndl
    IN  /\ pollset' = [pollset EXCEPT ![i + 1] = At(pollset, z)]
        /\ hndls' = [hndls EXCEPT ![i + 1] = At(hndls, z)]
        /\ hndl' = IF g # NoHndl /\ g # h THEN [hndl EXCEPT ![g].index = i] ELSE hndl
        /\ size' = z
        /\ last' = Call("rm", h, "OK", "", 0, FALSE)
        /\ UNCHANGED <<st, removed, capacity, index>>

nn_poller_rm_poll(h) ==
    LET i == hndl[h].index
        hs1 == IF removed # -1 THEN [hndls EXCEPT ![removed + 1].prev = i] ELSE hndls
    IN  /\ pollset' = [pollset EXCEPT ![i + 1].revents = {}]
        /\ hndls' = [hs1 EXCEPT ![i + 1] = [hndl |-> NoHndl, prev |-> -1, next |-> removed]]
        /\ removed' = i
        /\ last' = Call("rm", h, "OK", "", 0, FALSE)
        /\ UNCHANGED <<st, hndl, size, capacity, index>>

nn_poller_set_poll(h, bit) ==
    /\ pollset' = [pollset EXCEPT ![hndl[h].index + 1].events = @ \cup {bit}]
    /\ last' = Call("set_" \o bit, h, "OK", "", 0, FALSE)
    /\ UNCHANGED <<st, hndl, hndls, size, capacity, removed, index>>

nn_poller_reset_poll(h, bit) ==
    /\ pollset' = [pollset EXCEPT ![hndl[h].index + 1].events = @ \ {bit},
                                   ![hndl[h].index + 1].revents = @ \ {bit}]
    /\ last' = Call("reset_" \o bit, h, "OK", "", 0, FALSE)
    /\ UNCHANGED <<st, hndl, hndls, size, capacity, removed, index>>

\* The loop at the start of nn_poller_wait that gets rid of removed fds.  The
\* result has ub set when an iteration indexes pollset [-1].
RECURSIVE Compact(_, _, _, _, _)
Compact(ps, hs, sz, rem, hm) ==
    IF rem = -1 THEN [ps |-> ps, hs |-> hs, sz |-> sz, rem |-> rem, hm |-> hm, ub |-> FALSE]
    ELSE
      LET i == rem
          rem1 == At(hs, i).next
          sz1 == sz - 1
      IN  IF sz1 < 0
          THEN [ps |-> ps, hs |-> hs, sz |-> sz1, rem |-> rem1, hm |-> hm, ub |-> TRUE]
          ELSE
            LET moves == i # sz1
                ps1 == IF moves THEN [ps EXCEPT ![i + 1] = At(ps, sz1)] ELSE ps
                hs1 == IF moves /\ At(hs, i).next # -1
                       THEN [hs EXCEPT ![At(hs, i).next + 1].prev = -1] ELSE hs
                hs2 == IF moves THEN [hs1 EXCEPT ![i + 1] = At(hs1, sz1)] ELSE hs1
                hm1 == IF moves /\ At(hs2, i).hndl # NoHndl
                       THEN [hm EXCEPT ![At(hs2, i).hndl].index = i] ELSE hm
                onList == At(hs2, i).hndl = NoHndl
                hs3 == IF onList /\ At(hs2, i).prev # -1
                       THEN [hs2 EXCEPT ![At(hs2, i).prev + 1].next = i] ELSE hs2
                hs4 == IF onList /\ At(hs3, i).next # -1
                       THEN [hs3 EXCEPT ![At(hs3, i).next + 1].prev = i] ELSE hs3
                rem2 == IF onList /\ rem1 = sz1 THEN i ELSE rem1
            IN  Compact(ps1, hs4, sz1, rem2, hm1)

\* What poll() can write into the revents of slots 0 .. n - 1: the ready
\* conditions among the requested ones plus POLLERR/POLLHUP/POLLNVAL, which
\* need no request.
PollAnswers(ps, n) ==
    {r \in [1 .. n -> SUBSET Kinds] :
        \A i \in 1 .. n : r[i] \subseteq ps[i].events \cup {"ERR"}}

\* nn_poller_wait whose compaction leaves out "self->hndls [i].hndl->index = i".
nn_poller_wait_poll_noindex(answer, outcome, clears) ==
    LET c == Compact(pollset, hndls, size, removed, hndl)
        n == c.sz
    IN  IF c.ub
        THEN /\ st' \in UBOutcomes
             /\ last' = Call("wait", NoHndl, "UB", "", 0, FALSE)
             /\ UNCHANGED <<hndl, pollset, hndls, size, capacity, removed, index>>
        ELSE /\ hndls' = c.hs
             /\ hndl' = hndl
             /\ size' = n
             /\ removed' = c.rem
             /\ index' = 0
             /\ pollset' = [i \in 1 .. Len(c.ps) |->
                    IF i > n THEN c.ps[i]
                    ELSE IF outcome = "OK" THEN [c.ps[i] EXCEPT !.revents = answer[i]]
                    ELSE IF outcome = "EINTR" /\ clears THEN [c.ps[i] EXCEPT !.revents = {}]
                    ELSE c.ps[i]]
             /\ st' = IF outcome = "FAIL" THEN "aborted" ELSE st
             /\ last' = Call("wait", NoHndl, IF outcome = "FAIL" THEN "ABORT" ELSE outcome,
                             "", 1, outcome = "FAIL")
             /\ UNCHANGED capacity

\* outcome: "OK" with the answer written to every revents; "EINTR" (returned
\* only without NN_IGNORE_EINTR; with it the call is repeated), where poll()
\* leaves the revents as they were or clears them; "FAIL", any other errno.
nn_poller_wait_poll(answer, outcome, clears) ==
    LET c == Compact(pollset, hndls, size, removed, hndl)
        n == c.sz
    IN  IF c.ub
        THEN /\ st' \in UBOutcomes
             /\ last' = Call("wait", NoHndl, "UB", "", 0, FALSE)
             /\ UNCHANGED <<hndl, pollset, hndls, size, capacity, removed, index>>
        ELSE /\ hndls' = c.hs
             /\ hndl' = c.hm
             /\ size' = n
             /\ removed' = c.rem
             /\ index' = 0
             /\ pollset' = [i \in 1 .. Len(c.ps) |->
                    IF i > n THEN c.ps[i]
                    ELSE IF outcome = "OK" THEN [c.ps[i] EXCEPT !.revents = answer[i]]
                    ELSE IF outcome = "EINTR" /\ clears THEN [c.ps[i] EXCEPT !.revents = {}]
                    ELSE c.ps[i]]
             /\ st' = IF outcome = "FAIL" THEN "aborted" ELSE st
             /\ last' = Call("wait", NoHndl, IF outcome = "FAIL" THEN "ABORT" ELSE outcome,
                             "", 1, outcome = "FAIL")
             /\ UNCHANGED capacity

PollEmpty == [i \in 0 .. Len(pollset) - 1 |-> pollset[i + 1].revents = {}]

nn_poller_event_poll ==
    LET i == SkipEmpty(PollEmpty, index, size)
    IN  IF i >= size
        THEN /\ index' = i
             /\ last' = Call("event", NoHndl, "EAGAIN", "", 0, FALSE)
             /\ UNCHANGED <<st, hndl, pollset, hndls, size, capacity, removed>>
        ELSE LET rev == At(pollset, i).revents
                 kind == IF "IN" \in rev THEN "IN"
                         ELSE IF "OUT" \in rev THEN "OUT" ELSE "ERR"
             IN  /\ index' = IF kind = "ERR" THEN i + 1 ELSE i
                 /\ pollset' = IF kind = "ERR" THEN pollset
                                ELSE [pollset EXCEPT ![i + 1].revents = @ \ {kind}]
                 /\ last' = Call("event", At(hndls, i).hndl, "OK", kind, 0, FALSE)
                 /\ UNCHANGED <<st, hndl, hndls, size, capacity, removed>>

\* ------------------------------------------------------------ init and term
\* created: "OK", "EMFILE" (ENFILE or EMFILE from the creating call) or "FAIL"
\* (any other errno).  cloexec: EPOLL_CLOEXEC is defined.  Without it the
\* fcntl on the result is asserted before self->ep is looked at, and fcntl
\* on -1 fails; fcntlFail is a failure of fcntl on a valid descriptor.
nn_poller_init_epoll(cloexec, created, fcntlFail) ==
    /\ st' = IF ~cloexec /\ (created # "OK" \/ fcntlFail) THEN "aborted"
              ELSE IF created = "EMFILE" THEN "emfile"
              ELSE IF created = "FAIL" THEN "aborted"
              ELSE "running"
    /\ nevents' = IF st' = "running" THEN 0 ELSE nevents
    /\ index' = IF st' = "running" THEN 0 ELSE index
    /\ last' = Call("init", NoHndl,
                    IF st' = "running" THEN "OK" ELSE IF st' = "emfile" THEN "EMFILE" ELSE "ABORT",
                    IF created = "EMFILE" THEN (IF cloexec THEN "EMFILE_CLOEXEC" ELSE "EMFILE_PLAIN")
                    ELSE "",
                    1, created # "OK" \/ (~cloexec /\ fcntlFail))
    /\ UNCHANGED <<hndl, epset, events>>

nn_poller_init_kqueue(created) ==
    /\ st' = IF created = "EMFILE" THEN "emfile"
              ELSE IF created = "FAIL" THEN "aborted"
              ELSE "running"
    /\ nevents' = IF created = "OK" THEN 0 ELSE nevents
    /\ index' = IF created = "OK" THEN 0 ELSE index
    /\ last' = Call("init", NoHndl,
                    IF created = "OK" THEN "OK" ELSE IF created = "EMFILE" THEN "EMFILE" ELSE "ABORT",
                    IF created = "EMFILE" THEN "EMFILE" ELSE "", 1, created # "OK")
    /\ UNCHANGED <<hndl, kqset, events>>

nn_poller_init_poll(allocFail) ==
    /\ size' = 0
    /\ index' = 0
    /\ capacity' = NN_POLLER_GRANULARITY
    /\ pollset' = <<>>
    /\ hndls' = <<>>
    /\ IF allocFail
         THEN st' = "aborted" /\ UNCHANGED removed
         ELSE st' = "running" /\ removed' = -1
    /\ last' = Call("init", NoHndl, IF allocFail THEN "ABORT" ELSE "OK", "", 0, allocFail)
    /\ UNCHANGED hndl

\* nn_closefd (self->ep) and nn_closefd (self->kq): the descriptor is closed on
\* every call.
nn_poller_term_fd ==
    /\ closes' = closes + 1
    /\ st' = "termed"
    /\ last' = Call("term", NoHndl, "OK", "", 0, FALSE)

\* nn_free of both arrays on every call; freeing them again is undefined.
nn_poller_term_poll ==
    /\ closes' = closes + 1
    /\ st' \in IF closes = 0 THEN {"termed"} ELSE UBOutcomes
    /\ last' = Call("term", NoHndl, "OK", "", 0, FALSE)

\* ------------------------------------------------- what drain() would return
\* The (kind, handle) pairs that successive nn_poller_event calls return from
\* the current buffer when nothing else is called in between.
KindSeq(r, h) ==
    (IF "IN" \in r THEN <<<<"IN", h>>>> ELSE <<>>) \o
    (IF "OUT" \in r THEN <<<<"OUT", h>>>> ELSE <<>>) \o
    (IF "ERR" \in r THEN <<<<"ERR", h>>>> ELSE <<>>)

Count == IF backend = "poll" THEN size ELSE nevents

Entry(i) ==
    IF backend = "epoll" THEN KindSeq(events[i + 1].events, events[i + 1].ptr)
    ELSE IF backend = "kqueue"
    THEN LET e == events[i + 1]
         IN  IF e.udata = NoHndl THEN <<>>
             ELSE IF e.eof THEN <<<<"ERR", e.udata>>>>
             ELSE IF e.filter = "WRITE" THEN <<<<"OUT", e.udata>>>>
             ELSE <<<<"IN", e.udata>>>>
    ELSE KindSeq(At(pollset, i).revents, At(hndls, i).hndl)

RECURSIVE PendingFrom(_)
PendingFrom(i) == IF i >= Count THEN <<>> ELSE Entry(i) \o PendingFrom(i + 1)

Pending == PendingFrom(index)

Had(h) == \E k \in 1 .. Len(Pending) : Pending[k][2] = h
HadKind(h, kind) == \E k \in 1 .. Len(Pending) : Pending[k] = <<kind, h>>

\* ------------------------------------------------------------------ actions
CallerIdle == UNCHANGED <<regfd, fresh, cyc>>
Tick == calls < MaxCalls /\ calls' = calls + 1 /\ misused' = misused
EpollFrame == UNCHANGED <<backend, closes, kqset, povars>>
KqueueFrame == UNCHANGED <<backend, closes, epset, povars>>
PollFrame == UNCHANGED <<backend, closes, epset, kqset, events, nevents>>

Charge(fail) == nfail' = IF fail /\ last'.kfail THEN nfail + 1 ELSE nfail

CanInit == st \in {"uninit", "emfile"}
CanTerm == st \in {"running", "termed"} /\ closes < MaxTerm

EpollInit ==
    /\ backend = "epoll" /\ CanInit /\ Tick
    /\ \E cloexec \in BOOLEAN, created \in {"OK", "EMFILE", "FAIL"}, fcntlFail \in BOOLEAN :
          /\ fcntlFail => ~cloexec /\ created = "OK"
          /\ nn_poller_init_epoll(cloexec, created, fcntlFail)
    /\ CallerIdle /\ EpollFrame /\ UNCHANGED nfail

KqueueInit ==
    /\ backend = "kqueue" /\ CanInit /\ Tick
    /\ \E created \in {"OK", "EMFILE", "FAIL"} : nn_poller_init_kqueue(created)
    /\ CallerIdle /\ KqueueFrame /\ UNCHANGED nfail

PollInit ==
    /\ backend = "poll" /\ CanInit /\ Tick
    /\ \E allocFail \in BOOLEAN : nn_poller_init_poll(allocFail)
    /\ CallerIdle /\ PollFrame /\ UNCHANGED nfail

EpollTerm ==
    /\ backend = "epoll" /\ CanTerm /\ Tick
    /\ nn_poller_term_fd
    /\ CallerIdle
    /\ UNCHANGED <<backend, hndl, epset, kqset, events, nevents, index, povars, nfail>>

KqueueTerm ==
    /\ backend = "kqueue" /\ CanTerm /\ Tick
    /\ nn_poller_term_fd
    /\ CallerIdle
    /\ UNCHANGED <<backend, hndl, epset, kqset, events, nevents, index, povars, nfail>>

PollTerm ==
    /\ backend = "poll" /\ CanTerm /\ Tick
    /\ nn_poller_term_poll
    /\ CallerIdle
    /\ UNCHANGED <<backend, hndl, epset, kqset, events, nevents, index, povars, nfail>>

EpollAdd ==
    /\ backend = "epoll" /\ Running /\ Tick
    /\ \E h \in Handles \ Reg, fd \in FreeFds, fail \in MayFail :
          nn_poller_add_epoll(fd, h, fail) /\ CallerAdds(fd, h) /\ Charge(fail)
    /\ EpollFrame

EpollRm ==
    /\ backend = "epoll" /\ Running /\ Tick
    /\ \E h \in Reg, fail \in MayFail :
          nn_poller_rm_epoll(h, fail) /\ CallerRemoves(h, Had(h)) /\ Charge(fail)
    /\ EpollFrame

EpollSet ==
    /\ backend = "epoll" /\ Running /\ Tick
    /\ \E h \in Reg, bit \in Interest, fail \in MayFail :
          nn_poller_set_epoll(h, bit, fail) /\ CallerSets(h) /\ Charge(fail)
    /\ EpollFrame

EpollReset ==
    /\ backend = "epoll" /\ Running /\ Tick
    /\ \E h \in Reg, bit \in Interest, fail \in MayFail :
          /\ nn_poller_reset_epoll(h, bit, fail)
          /\ CallerResets(h, bit, HadKind(h, bit)) /\ Charge(fail)
    /\ EpollFrame

EpollWait ==
    /\ backend = "epoll" /\ Running /\ Tick
    /\ \E fail \in MayFail :
          /\ \E batch \in (IF fail THEN {<<>>} ELSE EpollBatches) :
                nn_poller_wait_epoll(batch, fail)
          /\ Charge(fail)
    /\ CallerWaits
    /\ EpollFrame

EpollEvent ==
    /\ backend = "epoll" /\ Running /\ Tick
    /\ nn_poller_event_epoll
    /\ CallerDrains /\ EpollFrame /\ UNCHANGED nfail

KqueueAdd ==
    /\ backend = "kqueue" /\ Running /\ Tick
    /\ \E h \in Handles \ Reg, fd \in FreeFds :
          nn_poller_add_kqueue(fd, h) /\ CallerAdds(fd, h)
    /\ KqueueFrame /\ UNCHANGED nfail

KqueueRm ==
    /\ backend = "kqueue" /\ Running /\ Tick
    /\ \E h \in Reg, fail \in MayFail :
          /\ \E failing \in (IF fail THEN SUBSET Filters \ {{}} ELSE {{}}) :
                nn_poller_rm_kqueue(h, failing)
          /\ CallerRemoves(h, Had(h)) /\ Charge(fail)
    /\ KqueueFrame

KqueueSet ==
    /\ backend = "kqueue" /\ Running /\ Tick
    /\ \E h \in Reg, bit \in Interest, fail \in MayFail :
          nn_poller_set_kqueue(h, bit, fail) /\ CallerSets(h) /\ Charge(fail)
    /\ KqueueFrame

KqueueReset ==
    /\ backend = "kqueue" /\ Running /\ Tick
    /\ \E h \in Reg, bit \in Interest, fail \in MayFail :
          /\ nn_poller_reset_kqueue(h, bit, fail)
          /\ CallerResets(h, bit, HadKind(h, bit)) /\ Charge(fail)
    /\ KqueueFrame

\* The ways a kevent or poll wait can end.
WaitOutcomes == {"OK", "EINTR"} \cup (IF TRUE \in MayFail THEN {"FAIL"} ELSE {})

KqueueWait ==
    /\ backend = "kqueue" /\ Running /\ Tick
    /\ \E outcome \in WaitOutcomes :
          /\ \E batch \in (IF outcome = "OK" THEN KqueueBatches ELSE {<<>>}) :
                nn_poller_wait_kqueue(batch, outcome)
          /\ Charge(outcome = "FAIL")
    /\ CallerWaits
    /\ KqueueFrame

KqueueEvent ==
    /\ backend = "kqueue" /\ Running /\ Tick
    /\ nn_poller_event_kqueue
    /\ CallerDrains /\ KqueueFrame /\ UNCHANGED nfail

PollAdd ==
    /\ backend = "poll" /\ Running /\ Tick /\ size < MaxSlots
    /\ \E h \in Handles \ Reg, fd \in FreeFds, allocFail \in MayFail :
          nn_poller_add_poll(fd, h, allocFail) /\ CallerAdds(fd, h) /\ Charge(allocFail)
    /\ PollFrame

PollRm ==
    /\ backend = "poll" /\ Running /\ Tick
    /\ \E h \in Reg : nn_poller_rm_poll(h) /\ CallerRemoves(h, Had(h))
    /\ PollFrame /\ UNCHANGED nfail

PollSet ==
    /\ backend = "poll" /\ Running /\ Tick
    /\ \E h \in Reg, bit \in Interest : nn_poller_set_poll(h, bit) /\ CallerSets(h)
    /\ PollFrame /\ UNCHANGED nfail

PollReset ==
    /\ backend = "poll" /\ Running /\ Tick
    /\ \E h \in Reg, bit \in Interest :
          nn_poller_reset_poll(h, bit) /\ CallerResets(h, bit, HadKind(h, bit))
    /\ PollFrame /\ UNCHANGED nfail

PollWait ==
    /\ backend = "poll" /\ Running /\ Tick
    /\ LET c == Compact(pollset, hndls, size, removed, hndl)
       IN  \E outcome \in WaitOutcomes, clears \in BOOLEAN :
             /\ outcome # "EINTR" => clears
             /\ \E answer \in (IF outcome = "OK" /\ ~c.ub THEN PollAnswers(c.ps, c.sz)
                                ELSE {<<>>}) :
                   nn_poller_wait_poll(answer, outcome, clears)
             /\ Charge(outcome = "FAIL")
    /\ CallerWaits
    /\ PollFrame

PollEvent ==
    /\ backend = "poll" /\ Running /\ Tick
    /\ nn_poller_event_poll
    /\ CallerDrains /\ PollFrame /\ UNCHANGED nfail

\* ------------------------------------------------------------ specification
StartWith(H, spent, made) ==
    /\ backend \in Backends
    /\ st = "uninit"
    /\ closes = 0
    /\ hndl = [h \in H |-> [fd |-> NoFd, events |-> {}, index |-> -1]]
    /\ regfd = [h \in H |-> NoFd]
    /\ epset = [f \in Fds |-> [on |-> FALSE, ptr |-> NoHndl, mask |-> {}]]
    /\ kqset = [f \in Fds |-> [READ |-> NoHndl, WRITE |-> NoHndl]]
    /\ events = <<>>
    /\ nevents = 0
    /\ index = 0
    /\ pollset = <<>>
    /\ hndls = <<>>
    /\ size = 0
    /\ capacity = 0
    /\ removed = -1
    /\ fresh = {}
    /\ cyc = NoCyc
    /\ misused = FALSE
    /\ nfail = spent
    /\ calls = made
    /\ last = Call("none", NoHndl, "OK", "", 0, FALSE)

Start(spent, made) == StartWith(Handles, spent, made)

Init == Start(0, 0)

Next ==
    \/ EpollInit \/ EpollTerm \/ EpollAdd \/ EpollRm \/ EpollSet \/ EpollReset
    \/ EpollWait \/ EpollEvent
    \/ KqueueInit \/ KqueueTerm \/ KqueueAdd \/ KqueueRm \/ KqueueSet \/ KqueueReset
    \/ KqueueWait \/ KqueueEvent
    \/ PollInit \/ PollTerm \/ PollAdd \/ PollRm \/ PollSet \/ PollReset
    \/ PollWait \/ PollEvent

Spec == Init /\ [][Next]_vars

\* ------------------------------------------- callers that break the contract
\* add on a handle that is registered, rm on a handle that is not (after an
\* earlier rm, so that the handle's fields hold what that registration left).
\* One breach per run: what is followed is what the poller does after it.
TickMisuse == ~misused /\ calls < MaxCalls /\ calls' = calls + 1 /\ misused' = TRUE
WasRegistered(h) == IF backend = "poll" THEN hndl[h].index # -1 ELSE hndl[h].fd # NoFd

EpollAddAgain ==
    /\ backend = "epoll" /\ Running /\ TickMisuse
    /\ \E h \in Reg, fd \in Fds :
          nn_poller_add_epoll(fd, h, FALSE) /\ CallerAdds(fd, h)
    /\ EpollFrame /\ UNCHANGED nfail

EpollRmAgain ==
    /\ backend = "epoll" /\ Running /\ TickMisuse
    /\ \E h \in Handles \ Reg :
          WasRegistered(h) /\ nn_poller_rm_epoll(h, FALSE) /\ CallerRemoves(h, Had(h))
    /\ EpollFrame /\ UNCHANGED nfail

KqueueAddAgain ==
    /\ backend = "kqueue" /\ Running /\ TickMisuse
    /\ \E h \in Reg, fd \in Fds :
          nn_poller_add_kqueue(fd, h) /\ CallerAdds(fd, h)
    /\ KqueueFrame /\ UNCHANGED nfail

KqueueRmAgain ==
    /\ backend = "kqueue" /\ Running /\ TickMisuse
    /\ \E h \in Handles \ Reg :
          WasRegistered(h) /\ nn_poller_rm_kqueue(h, {}) /\ CallerRemoves(h, Had(h))
    /\ KqueueFrame /\ UNCHANGED nfail

PollAddAgain ==
    /\ backend = "poll" /\ Running /\ TickMisuse /\ size < MaxSlots
    /\ \E h \in Reg, fd \in Fds :
          nn_poller_add_poll(fd, h, FALSE) /\ CallerAdds(fd, h)
    /\ PollFrame /\ UNCHANGED nfail

PollRmAgain ==
    /\ backend = "poll" /\ Running /\ TickMisuse
    /\ \E h \in Handles \ Reg :
          WasRegistered(h) /\ nn_poller_rm_poll(h) /\ CallerRemoves(h, Had(h))
    /\ PollFrame /\ UNCHANGED nfail

NextMisuse ==
    \/ Next
    \/ EpollAddAgain \/ EpollRmAgain
    \/ KqueueAddAgain \/ KqueueRmAgain
    \/ PollAddAgain \/ PollRmAgain

\* Every kernel call on a valid argument succeeds here: what goes wrong is the
\* caller's doing alone. Runs are MisuseCalls calls long.
InitMisuse == Start(MaxFail, MaxCalls - MisuseCalls)

SpecMisuse == InitMisuse /\ [][NextMisuse]_vars

\* ------------------------------------------------------------------- claims
Drained == st = "running" /\ last.op = "event" /\ last.rc = "OK"

\* C1: once remove(h) was called while the buffer held undelivered events for
\* h, no drain() before the next wait() returns h, in any backend.
C1_RemovedHandleNotDrained == Drained => last.h \notin cyc.rm

\* C2: once reset_in(h) (reset_out(h)) was called while the buffer held an
\* undelivered IN (OUT) event for h, no drain() before the next wait() returns
\* (IN, h) ((OUT, h)); and the call takes nothing else out of what drain()
\* will deliver.
ResetStep(h, bit) == last'.op = "reset_" \o bit /\ last'.h = h /\ st' = "running"

C2_ResetSuppressesOnlyThatKind ==
    [][/\ Drained' => <<last'.h, last'.event>> \notin cyc'.reset
       /\ \A h \in Handles, bit \in Interest :
             ResetStep(h, bit) => Pending' = SelectSeq(Pending, LAMBDA e : e # <<bit, h>>)]_vars

\* C3: no drain() returns an event for a handle that was added and has had
\* neither set_in nor set_out called since.
C3_NoEventBeforeInterest == Drained => last.h \notin fresh

\* C4: a call in which a kernel call failed (other than descriptor exhaustion
\* in init; an interrupted wait is not counted as a failure) does not return
\* normally with poller or handle state changed.
C4_KernelFailureAborts ==
    [][(last'.kfail /\ last'.rc # "EMFILE" /\ calls' # calls /\ st' # "aborted")
          => UNCHANGED <<hndl, epset, kqset, events, nevents, index, povars>>]_vars

\* C5: a caller that registers a registered handle or removes an unregistered
\* one is stopped by an abort.
C5_MisuseAborts == misused => st = "aborted"

\* C6: remove(h) takes out of what drain() will deliver exactly the events of
\* h; the events of every other handle stay, in the same order.
C6_RemoveTouchesOnlyItsHandle ==
    [][\A h \in Handles :
          (last'.op = "rm" /\ last'.h = h /\ calls' # calls /\ st' = "running")
             => Pending' = SelectSeq(Pending, LAMBDA e : e[2] # h)]_vars

\* C7: set on a handle whose bit is set, and reset on a handle whose bit is
\* not set, issue no kernel call and change nothing; two consecutive
\* set_in(h) (set_out(h)) calls, the first on an unset bit, change the kernel
\* registration exactly once.
Wants(h) ==
    IF backend = "poll" THEN At(pollset, hndl[h].index).events ELSE hndl[h].events

Changes(call) == IF call.kfail THEN 0 ELSE call.kcalls

Untouched == UNCHANGED <<hndl, epset, kqset, events, nevents, index, povars>>

C7_SetResetIdempotent ==
    [][\A h \in Reg, bit \in Interest :
          /\ (calls' # calls /\ last'.h = h /\ last'.op = "set_" \o bit /\ bit \in Wants(h))
                => last'.kcalls = 0 /\ Untouched
          /\ (calls' # calls /\ last'.h = h /\ last'.op = "reset_" \o bit /\ bit \notin Wants(h))
                => last'.kcalls = 0 /\ Untouched
          /\ (calls' # calls /\ last'.h = h /\ last'.op = "set_" \o bit
                 /\ last.op = last'.op /\ last.h = h /\ last.kcalls = 1)
                => Changes(last) + Changes(last') = 1]_vars

\* C8: however often term() is called, the poller's resource is released once.
C8_TermReleasesOnce == closes <= 1

\* C9: when wait() has returned, the cursor is zero and drain() delivers only
\* what that call produced: nothing after an interrupted or failed call.
C9_WaitStartsAfresh ==
    (st = "running" /\ last.op = "wait")
       => index = 0 /\ (last.rc = "EINTR" \/ last.kfail => Pending = <<>>)

\* C10: after wait(), every buffered event of a descriptor that is registered
\* names the handle it is registered with (never a handle that was removed
\* and replaced on that descriptor).
EntryFd(i) ==
    IF backend = "epoll" THEN events[i + 1].fd
    ELSE IF backend = "kqueue" THEN events[i + 1].ident
    ELSE At(pollset, i).fd

C10_ReAddedDescriptorNamesNewHandle ==
    (st = "running" /\ last.op = "wait" /\ last.rc = "OK")
       => \A i \in 0 .. Count - 1 : \A e \in {Entry(i)[k] : k \in 1 .. Len(Entry(i))} :
             \A new \in Reg : regfd[new] = EntryFd(i) => e[2] = new

\* C11: the round trip add(fd, h), set_out(h), descriptor writable, wait(),
\* drain().  A handle that wants OUT is known to the kernel under its
\* descriptor with OUT interest, so that wait() buffers the descriptor's
\* writability for h; and when wait() has buffered exactly the OUT record of h,
\* the first drain() returns (OUT, h) and leaves nothing, and a drain() that
\* finds nothing returns the sentinel.
KernelWatches(h, bit) ==
    IF backend = "epoll"
    THEN LET k == epset[regfd[h]] IN k.on /\ k.ptr = h /\ bit \in k.mask
    ELSE IF backend = "kqueue"
    THEN kqset[regfd[h]][FilterOf(bit)] = h
    ELSE LET i == hndl[h].index
         IN  /\ i < size
             /\ At(pollset, i).fd = regfd[h]
             /\ bit \in At(pollset, i).events
             /\ At(hndls, i).hndl = h

EventStep == calls' # calls /\ last'.op = "event"

C11_RoundTripOut ==
    [][/\ \A h \in Reg :
             (calls' # calls /\ last'.op = "wait" /\ "OUT" \in Wants(h))
                => KernelWatches(h, "OUT")
       /\ \A h \in Handles :
             (EventStep /\ last.op = "wait" /\ last.rc = "OK" /\ Pending = <<<<"OUT", h>>>>)
                => /\ last' = Call("event", h, "OK", "OUT", 0, FALSE)
                   /\ Pending' = <<>>
       /\ (EventStep /\ Pending = <<>>) => last'.rc = "EAGAIN"]_vars

\* C12: init() returns -EMFILE exactly when the creation of the kernel
\* resource failed for a full descriptor table (last.event tells so), aborts
\* on every other failure, and on success leaves an empty buffer: count 0 and
\* cursor 0.
C12_InitEmfileOrAbort ==
    last.op = "init" =>
       /\ (last.rc = "EMFILE") <=> (last.event # "")
       /\ (last.kfail /\ last.event = "") => (last.rc = "ABORT" /\ st = "aborted")
       /\ last.rc = "OK" => (~last.kfail /\ Running /\ index = 0 /\ Count = 0 /\ Pending = <<>>)

\* C13: once drain() has returned the sentinel, every drain() before the next
\* wait() returns the sentinel, whatever was called in between; and a drain()
\* that returns the sentinel changes no registration and is not an error.
C13_SentinelUntilNextWait ==
    [][/\ (EventStep /\ cyc.dry # "no") => last'.rc = "EAGAIN"
       /\ (EventStep /\ last'.rc = "EAGAIN")
             => /\ st' = st
                /\ UNCHANGED <<regfd, hndl, epset, kqset, pollset, hndls, size, removed>>]_vars

\* A drain() has returned the sentinel after a sentinel and a registration
\* call of the same cycle.
C13_SentinelAfterCalls ==
    Running /\ last.op = "event" /\ last.rc = "EAGAIN" /\ cyc.dry = "touched"

\* C14: poll backend: when wait() has run its compaction, the removed list is
\* empty, size is the number of registered handles, every registered handle's
\* stored index is a slot below size that holds the handle, its descriptor and
\* its interest mask; the loop ends without leaving the arrays.
PollWaitStep == backend = "poll" /\ Running /\ calls' # calls /\ last'.op = "wait"

C14_CompactionRestoresSlots ==
    [][PollWaitStep =>
          /\ st' \notin UBOutcomes
          /\ removed' = -1
          /\ size' = Cardinality(Reg)
          /\ size' <= Len(pollset') /\ Len(pollset') <= capacity'
          /\ \A h \in Reg :
                LET i == hndl'[h].index
                IN  /\ i \in 0 .. size' - 1
                    /\ At(hndls', i).hndl = h
                    /\ At(pollset', i).fd = regfd[h]
                    /\ At(pollset', i).events = Wants(h)]_vars

\* wait() has compacted two removed slots away and a registered handle is left.
C14_TwoSlotsCompacted ==
    /\ backend = "poll" /\ last.op = "wait" /\ last.rc = "OK"
    /\ size >= 1 /\ Len(pollset) >= size + 2 /\ removed = -1

\* ------------------------------------------------------------------- C15
PollRmStep == backend = "poll" /\ Running /\ calls' # calls /\ last'.op = "rm"

\* A poll-backend call other than init, term and wait.
PollBetweenWaits ==
    /\ backend = "poll" /\ Running /\ calls' # calls
    /\ last'.op \notin {"init", "term", "wait"}

\* C15: on the poll backend remove(h) only marks h's slot: the slot's revents
\* become empty, its item loses the handle and is linked in front of the
\* removed list; size, capacity, the cursor, every other slot's fd, events and
\* revents and every other handle's stored index stay as they were.  Between
\* two waits no call moves a slot: a handle registered before and after a call
\* keeps its index, and the slot there keeps its fd and its handle.
C15_RemoveOnlyMarksSlot ==
    [][ /\ PollRmStep =>
              LET h == last'.h
                  i == hndl[h].index
              IN  /\ At(pollset', i).revents = {}
                  /\ At(hndls', i) = [hndl |-> NoHndl, prev |-> -1, next |-> removed]
                  /\ removed' = i
                  /\ removed # -1 => At(hndls', removed).prev = i
                  /\ size' = size /\ capacity' = capacity /\ index' = index
                  /\ Len(pollset') = Len(pollset) /\ Len(hndls') = Len(hndls)
                  /\ \A j \in 0 .. Len(pollset) - 1 :
                        j # i => /\ At(pollset', j) = At(pollset, j)
                                 /\ At(hndls', j).hndl = At(hndls, j).hndl
                  /\ \A g \in Handles \ {h} : hndl'[g].index = hndl[g].index
        /\ PollBetweenWaits =>
              \A g \in Reg \cap Reg' :
                  /\ hndl'[g].index = hndl[g].index
                  /\ At(pollset', hndl[g].index).fd = At(pollset, hndl[g].index).fd
                  /\ At(hndls', hndl[g].index).hndl = g ]_vars

\* A handle was removed while another one, in a later slot, holds delivered
\* events that the caller has not drained yet.
C15_RemovedBesideBuffered ==
    /\ backend = "poll" /\ Running /\ last.op = "rm" /\ removed # -1
    /\ \E g \in Reg : /\ hndl[g].index > removed
                      /\ At(pollset, hndl[g].index).revents # {}
                      /\ index <= hndl[g].index

\* ------------------------------------------------------------------- C16
\* A caller of the poll backend that registers GrowHandles descriptors, one
\* handle after another, so that the array of NN_POLLER_GRANULARITY slots has
\* to grow.  Around the growth (from GrowLead slots before the array is full)
\* it also removes and re-adds the first NumHandles handles, changes their
\* interest, waits and drains, GrowCalls calls in all; only those handles'
\* descriptors become ready.
GrowSet == 1 .. GrowHandles

GrowWindow == size >= NN_POLLER_GRANULARITY - GrowLead

GrowTick == GrowWindow /\ Tick

GrowFrame == PollFrame

GrowInit ==
    /\ backend = "poll" /\ CanInit /\ Tick
    /\ nn_poller_init_poll(FALSE)
    /\ CallerIdle /\ GrowFrame /\ UNCHANGED nfail

GrowAdd ==
    /\ backend = "poll" /\ Running /\ GrowSet \ Reg # {}
    /\ LET h == CHOOSE x \in GrowSet \ Reg : \A y \in GrowSet \ Reg : x <= y
       IN  \E allocFail \in MayFail :
              nn_poller_add_poll(h, h, allocFail) /\ CallerAdds(h, h) /\ Charge(allocFail)
    /\ GrowFrame /\ UNCHANGED <<calls, misused>>

GrowRm ==
    /\ backend = "poll" /\ Running /\ GrowTick
    /\ \E h \in Reg \cap Handles : nn_poller_rm_poll(h) /\ CallerRemoves(h, Had(h))
    /\ GrowFrame /\ UNCHANGED nfail

GrowSetInterest ==
    /\ backend = "poll" /\ Running /\ GrowTick
    /\ \E h \in Reg \cap Handles, bit \in Interest : nn_poller_set_poll(h, bit) /\ CallerSets(h)
    /\ GrowFrame /\ UNCHANGED nfail

GrowReset ==
    /\ backend = "poll" /\ Running /\ GrowTick
    /\ \E h \in Reg \cap Handles, bit \in Interest :
          nn_poller_reset_poll(h, bit) /\ CallerResets(h, bit, HadKind(h, bit))
    /\ GrowFrame /\ UNCHANGED nfail

\* The answers of poll() in which only slots of the first NumHandles handles
\* are ready.
GrowAnswers(ps, hs, n) ==
    {[i \in 1 .. n |-> IF hs[i].hndl \in Handles
                       THEN pick[hs[i].hndl] \cap (ps[i].events \cup {"ERR"})
                       ELSE {}] : pick \in [Handles -> SUBSET Kinds]}

GrowWait ==
    /\ backend = "poll" /\ Running /\ GrowTick
    /\ LET c == Compact(pollset, hndls, size, removed, hndl)
       IN  \E answer \in GrowAnswers(c.ps, c.hs, c.sz) :
              nn_poller_wait_poll(answer, "OK", TRUE)
    /\ CallerWaits
    /\ GrowFrame /\ UNCHANGED nfail

GrowEvent ==
    /\ backend = "poll" /\ Running /\ GrowTick
    /\ nn_poller_event_poll
    /\ CallerDrains /\ GrowFrame /\ UNCHANGED nfail

NextGrow ==
    \/ GrowInit \/ GrowAdd \/ GrowRm \/ GrowSetInterest \/ GrowReset
    \/ GrowWait \/ GrowEvent

InitGrow == StartWith(GrowSet, 0, MaxCalls - GrowCalls - 1) /\ backend = "poll"

SpecGrow == InitGrow /\ [][NextGrow]_vars

\* h is registered where the poller looks for it: its index names a slot
\* below size that holds the handle and its descriptor.
PollRegistered(h) ==
    /\ hndl[h].index \in 0 .. size - 1
    /\ At(hndls, hndl[h].index).hndl = h
    /\ At(pollset, hndl[h].index).fd = regfd[h]

\* nn_poller_add has resized the arrays.
Grows == backend = "poll" /\ Running /\ capacity' # capacity

\* C16: on the poll backend 0 <= size <= capacity in every state and capacity
\* never decreases; add on a full array doubles capacity and keeps every slot
\* written so far (fd, events, revents, handle, prev, next), the head of the
\* removed list and every registered handle's index; every registered handle
\* stays registered, all GrowHandles of them once they have been added.
C16_GrowthKeepsRegistrations ==
    [][ /\ backend = "poll" =>
              /\ 0 <= size' /\ size' <= capacity' /\ capacity' >= capacity
              /\ Len(pollset') <= capacity' /\ Len(hndls') <= capacity'
              /\ Running' => \A h \in Reg' : PollRegistered(h)'
        /\ Grows =>
              /\ size = capacity /\ capacity' = 2 * capacity
              /\ Running' =>
                    /\ size' = size + 1 /\ removed' = removed /\ index' = index
                    /\ \A j \in 0 .. Len(pollset) - 1 :
                          j # size => /\ At(pollset', j) = At(pollset, j)
                                      /\ At(hndls', j) = At(hndls, j)
                    /\ \A h \in Reg : hndl'[h].index = hndl[h].index
                    /\ Reg' = Reg \cup {last'.h} /\ last'.op = "add" ]_vars

\* The add that has just filled slot NN_POLLER_GRANULARITY resized the arrays
\* while a slot was on the removed list and a registered handle held an
\* undrained IN; no slot has been compacted away before.
C16_GrewWithListAndEvents ==
    /\ backend = "poll" /\ Running /\ last.op = "add" /\ last.rc = "OK"
    /\ size = NN_POLLER_GRANULARITY + 1 /\ Len(pollset) = size
    /\ capacity = 2 * NN_POLLER_GRANULARITY
    /\ removed # -1
    /\ \E h \in Reg : "IN" \in At(pollset, hndl[h].index).revents

\* ------------------------------------------------------------------- C17
\* C17: on the epoll and kqueue backends, while the poller is in use,
\* 0 <= index <= nevents <= NN_POLLER_MAX_EVENTS, also after a wait whose
\* kernel call failed with an error other than EINTR; the scans of rm and
\* reset, from index up to nevents, therefore stay inside the buffer.
C17_CursorWithinCount ==
    (backend \in {"epoll", "kqueue"} /\ Running) =>
        /\ 0 <= index /\ index <= nevents /\ nevents <= NN_POLLER_MAX_EVENTS
        /\ ~ScanOverruns

\* ------------------------------------------------------------------- C18
\* A nn_poller_set_in/set_out/reset_in/reset_out call has been made.
InterestStep ==
    /\ calls' # calls
    /\ last'.op \in {"set_IN", "set_OUT", "reset_IN", "reset_OUT"}

\* C18: while the poller is in use the interest recorded for every registered
\* handle is the interest the kernel holds for its descriptor, bit by bit; on
\* kqueue a set or reset call changes the handle's bit only if it issued a
\* kevent call and that call succeeded, and never changes the other bit.
C18_RecordedInterestIsKernelInterest ==
    [][ /\ Running' =>
              \A h \in Reg', bit \in Interest :
                  (bit \in Wants(h)') <=> KernelWatches(h, bit)'
        /\ (backend = "kqueue" /\ InterestStep) =>
              \A h \in Reg, bit \in Interest :
                  hndl'[h].events \cap {bit} # hndl[h].events \cap {bit} =>
                      /\ h = last'.h /\ last'.op \in {"set_" \o bit, "reset_" \o bit}
                      /\ last'.kcalls = 1 /\ ~last'.kfail ]_vars

\* ------------------------------------------------------------------- C19
\* A call of the API between two waits.
BetweenWaits == calls' # calls /\ last'.op \notin {"init", "term", "wait"}

\* C19: nn_poller_event returns a kind of {IN, OUT, ERR}: the first entry of
\* what the buffer holds from the cursor on, where a record of epoll or poll
\* counts as its flags in the order IN, OUT, ERR and a record of kqueue as ERR
\* if it carries EV_EOF and else as OUT or IN by its filter; what is left is
\* the rest, so nothing is returned twice.  The cursor passes a record only
\* if the record is empty or the call has delivered its last entry (ERR on
\* epoll and poll), and it never decreases between two waits.
C19_DrainOrder ==
    [][ /\ (EventStep /\ last'.rc = "OK") =>
              /\ last'.event \in Kinds
              /\ Pending # <<>>
              /\ <<last'.event, last'.h>> = Head(Pending)
              /\ Pending' = Tail(Pending)
              /\ backend \in {"epoll", "poll"} => (index' > index => 
                    (last'.event = "ERR" \/ Entry(index) = <<>>))
        /\ (EventStep /\ last'.rc = "EAGAIN") => Pending = <<>>
        /\ EventStep =>
              \A j \in index .. index' - 1 :
                  \/ Entry(j) = <<>>
                  \/ /\ j = index' - 1 /\ last'.rc = "OK"
                     /\ Entry(j) = <<<<last'.event, last'.h>>>>
                     /\ backend \in {"epoll", "poll"} => last'.event = "ERR"
        /\ BetweenWaits => index' >= index ]_vars

\* nn_poller_event has returned OUT for a record of epoll or poll whose ERR
\* is still to come.
C19_OutBeforeErr ==
    /\ backend \in {"epoll", "poll"} /\ Running
    /\ last.op = "event" /\ last.rc = "OK" /\ last.event = "OUT"
    /\ index < Count /\ Entry(index) = <<<<"ERR", last.h>>>>

\* ------------------------------------------------------------------- C20
\* A caller that, after LiveCalls calls of nn_poller_init and nn_poller_add,
\* settles into the loop the poller is written for: wait, then nn_poller_event
\* until it returns -EAGAIN, then wait again, changing the interest of its
\* handles as it goes.  The calls of the loop are not counted.
LiveLoop == calls = MaxCalls

LoopFrame == UNCHANGED <<calls, misused>>

LiveSet ==
    /\ LiveLoop /\ Running
    /\ \E h \in Reg, bit \in Interest, fail \in MayFail :
          /\ \/ backend = "epoll" /\ nn_poller_set_epoll(h, bit, fail) /\ EpollFrame
             \/ backend = "kqueue" /\ nn_poller_set_kqueue(h, bit, fail) /\ KqueueFrame
             \/ backend = "poll" /\ nn_poller_set_poll(h, bit) /\ PollFrame
          /\ CallerSets(h) /\ Charge(fail)
    /\ LoopFrame

LiveReset ==
    /\ LiveLoop /\ Running
    /\ \E h \in Reg, bit \in Interest, fail \in MayFail :
          /\ \/ backend = "epoll" /\ nn_poller_reset_epoll(h, bit, fail) /\ EpollFrame
             \/ backend = "kqueue" /\ nn_poller_reset_kqueue(h, bit, fail) /\ KqueueFrame
             \/ backend = "poll" /\ nn_poller_reset_poll(h, bit) /\ PollFrame
          /\ CallerResets(h, bit, HadKind(h, bit)) /\ Charge(fail)
    /\ LoopFrame

LiveWait ==
    /\ LiveLoop /\ Running /\ cyc.dry # "no"
    /\ \/ /\ backend = "epoll"
          /\ \E fail \in MayFail :
                /\ \E batch \in (IF fail THEN {<<>>} ELSE EpollBatches) :
                      nn_poller_wait_epoll(batch, fail)
                /\ Charge(fail)
          /\ EpollFrame
       \/ /\ backend = "kqueue"
          /\ \E outcome \in WaitOutcomes :
                /\ \E batch \in (IF outcome = "OK" THEN KqueueBatches ELSE {<<>>}) :
                      nn_poller_wait_kqueue(batch, outcome)
                /\ Charge(outcome = "FAIL")
          /\ KqueueFrame
       \/ /\ backend = "poll"
          /\ LET c == Compact(pollset, hndls, size, removed, hndl)
             IN  \E outcome \in WaitOutcomes, clears \in BOOLEAN :
                   /\ outcome # "EINTR" => clears
                   /\ \E answer \in (IF outcome = "OK" /\ ~c.ub THEN PollAnswers(c.ps, c.sz)
                                      ELSE {<<>>}) :
                         nn_poller_wait_poll(answer, outcome, clears)
                   /\ Charge(outcome = "FAIL")
          /\ PollFrame
    /\ CallerWaits
    /\ LoopFrame

LiveEvent ==
    /\ LiveLoop /\ Running /\ cyc.dry = "no"
    /\ \/ backend = "epoll" /\ nn_poller_event_epoll /\ EpollFrame
       \/ backend = "kqueue" /\ nn_poller_event_kqueue /\ KqueueFrame
       \/ backend = "poll" /\ nn_poller_event_poll /\ PollFrame
    /\ CallerDrains /\ UNCHANGED nfail
    /\ LoopFrame

\* The wait of the loop returns with an IN for h in the buffer: the kernel has
\* found h's descriptor readable and reported it.
ReportsIn(h) == LiveWait /\ HadKind(h, "IN")'

NextLive ==
    \/ EpollInit \/ KqueueInit \/ PollInit
    \/ EpollAdd \/ KqueueAdd \/ PollAdd
    \/ LiveSet \/ LiveReset \/ LiveWait \/ LiveEvent

InitLive == Start(0, MaxCalls - LiveCalls)

\* The caller keeps waiting and draining; the kernel is level-triggered and
\* fair: a descriptor it could report as readable again and again is reported.
FairLive ==
    /\ WF_vars(LiveWait) /\ WF_vars(LiveEvent)
    /\ \A h \in Handles : SF_vars(ReportsIn(h))

SpecLive == InitLive /\ [][NextLive]_vars /\ FairLive

InStays(h) == Running /\ LiveLoop /\ h \in Reg /\ "IN" \in Wants(h)

GotIn(h) == last = Call("event", h, "OK", "IN", 0, FALSE)

\* C20: if from some point on h stays registered with IN interest while the
\* caller loops over wait and drain and the kernel is fair, nn_poller_event
\* returns (IN, h) again and again; an IN that reset_in(h) has neutralized
\* comes back in a later cycle once set_in(h) has been called.
C20_ReadableIsDelivered ==
    \A h \in Handles : (<>[]InStays(h)) => ([]<>GotIn(h))

====
